---- MODULE Spec2Model ----
(***************************************************************************)
(* Scale-to-zero controller: the XDP packet classifier (kernel), the       *)
(* userspace registry WATCHED_SERVICES with its cluster watcher, the       *)
(* registry -> kernel table sync, the per-CPU wake consumers and the       *)
(* scaler (scale_up with its rate limiter, the scale_down loop).           *)
(*                                                                         *)
(* Every await, and every point between two lock acquisitions, is a point  *)
(* where the other tasks may run: the runtime is multi-threaded.  A task   *)
(* is modelled by its position (pc) and its locals.                        *)
(***************************************************************************)
EXTENDS Integers, Sequences, FiniteSets, TLC

\* ------------------------------------------------------------------ bounds
\* The wall clock runs over 0..MaxTime (seconds).
MaxTime == 5
\* Events one per-CPU perf buffer holds before it drops.
RingCap == 1
\* Largest spec.replicas the environment sets on a workload.
MaxReplicas == 2
\* Workload events of one workload waiting in the watch stream.
MaxPending == 1

\* --------------------------------------------------------- program constants
\* EthHdr::LEN, the offset of the IPv4 header.
EthHdrLEN == 14
\* mem::size_of::<Ipv4Hdr>()
Ipv4HdrLEN == 20
\* Duration::from_secs(5) of the scale_up rate limiter.
RateLimitSecs == 5
\* SERVICE_LIST: HashMap::with_max_entries(1024, 0)
MaxEntries == 1024

\* ------------------------------------------------------------------ universe
Cpus == {0, 1}

\* An address in text form ("10.0.0.5"), as the tuple of its decimal fields.
IpA == <<10, 0, 0, 5>>
IpB == <<10, 0, 0, 6>>
IpOther == <<8, 8, 8, 8>>
ClusterIps == {IpA, IpB}

\* k.parse::<Ipv4Addr>().unwrap().into(): text -> u32 in host order.
ParseIpv4(s) == s[1] * 16777216 + s[2] * 65536 + s[3] * 256 + s[4]

\* Ipv4Addr::from(u32).to_string(): u32 in host order -> text.
Ipv4ToString(n) == << n \div 16777216, (n \div 65536) % 256, (n \div 256) % 256, n % 256 >>

\* Ipv4Addr::is_loopback: 127.0.0.0/8.
is_loopback(n) == n \div 16777216 = 127

\* u32::from_be of the four bytes of dst_addr as they lie in the frame.
from_be(bytes) == bytes[1] * 16777216 + bytes[2] * 65536 + bytes[3] * 256 + bytes[4]

\* A frame: its length in bytes, its EtherType and the destination address
\* bytes of its IPv4 header (read only when the bounds checks allow it).
Frames ==
    [len : {EthHdrLEN + Ipv4HdrLEN}, ether_type : {"Ipv4", "Arp"}, dst_addr : {IpA, IpB, IpOther}]
    \cup [len : {EthHdrLEN - 1, EthHdrLEN}, ether_type : {"Ipv4", "Arp"}, dst_addr : {IpA}]

\* WorkloadReference {kind, name, namespace}; the workloads the cluster holds.
WlDeploy == [kind |-> "deployment", name |-> "foo", namespace |-> "default"]
WlSts == [kind |-> "statefulset", name |-> "bar", namespace |-> "default"]
Workloads == {WlDeploy, WlSts}

\* Partial maps (HashMap) as functions on the set of their keys.
Put(m, k, v) == [x \in (DOMAIN m) \cup {k} |-> IF x = k THEN v ELSE m[x]]
Remove(m, k) == [x \in (DOMAIN m) \ {k} |-> m[x]]
EmptyMap == [x \in {} |-> 0]

VARIABLES
    now,               \* the wall clock, in seconds
    WATCHED_SERVICES,  \* registry: cluster_ip text -> ServiceData
    LAST_CALLED,       \* rate limiter: cluster_ip text -> time of last accepted scale_up
    workload_service,  \* the watcher's index: WorkloadReference -> Service
    SERVICE_LIST,      \* kernel map: u32 address -> u32 flag
    SCALE_REQUESTS,    \* per-CPU perf buffer of PacketLog records
    arrived,           \* per CPU, for each record in the buffer: whether its frame arrived less
                       \* than RateLimitSecs after the last accepted scale_up for its address
    last,              \* what the last step did, when it was a classifier run or a workload event
    consumer,          \* per CPU: the wake consumer task
    scaler,            \* the scale_down task
    syncer,            \* the sync loop of main
    watcher,           \* the kube_event_watcher task
    replicas,          \* orchestrator: workload -> spec.replicas
    wl_events,         \* orchestrator: workload -> applied events not yet delivered
    patches            \* cluster_ip text -> time the last replicas=1 patch for it was submitted

vars == << now, WATCHED_SERVICES, LAST_CALLED, workload_service, SERVICE_LIST, SCALE_REQUESTS,
           arrived, last, consumer, scaler, syncer, watcher, replicas, wl_events, patches >>

\* ------------------------------------------------------- packet classifier
\* ptr_at: Err when start + offset + len > end.
ptr_at(frame, offset, len) == ~(offset + len > frame.len)

\* is_scalable_dst with a miss read as flag 0 (get(..).unwrap_or_default()).
is_scalable_dst_miss_is_zero(address) ==
    IF address \in DOMAIN SERVICE_LIST THEN <<SERVICE_LIST[address]>> ELSE <<0>>

\* is_scalable_dst: SERVICE_LIST.get(&address).cloned(), an Option as a sequence.
is_scalable_dst(address) ==
    IF address \in DOMAIN SERVICE_LIST THEN <<SERVICE_LIST[address]>> ELSE <<>>

XdpResult(ok, ret, out) == [ok |-> ok, ret |-> ret, out |-> out]

\* try_xdp_scale_to_zero_fw with the wake record of the DROP branch carrying
\* action 0.
try_xdp_drop_action_0(frame) ==
    IF ~ptr_at(frame, 0, EthHdrLEN) THEN XdpResult(FALSE, "none", <<>>)
    ELSE IF frame.ether_type # "Ipv4" THEN XdpResult(TRUE, "XDP_PASS", <<>>)
    ELSE IF ~ptr_at(frame, EthHdrLEN, Ipv4HdrLEN) THEN XdpResult(FALSE, "none", <<>>)
    ELSE LET dst == from_be(frame.dst_addr)
             hit == is_scalable_dst(dst)
         IN  IF hit # <<>>
             THEN IF hit[1] = 0
                  THEN XdpResult(TRUE, "XDP_DROP", << [ipv4_address |-> dst, action |-> 0] >>)
                  ELSE XdpResult(TRUE, "XDP_PASS", << [ipv4_address |-> dst, action |-> 0] >>)
             ELSE XdpResult(TRUE, "XDP_PASS", <<>>)

\* try_xdp_scale_to_zero_fw that emits on DROP only: no record for a frame
\* that passes.
try_xdp_emit_on_drop_only(frame) ==
    IF ~ptr_at(frame, 0, EthHdrLEN) THEN XdpResult(FALSE, "none", <<>>)
    ELSE IF frame.ether_type # "Ipv4" THEN XdpResult(TRUE, "XDP_PASS", <<>>)
    ELSE IF ~ptr_at(frame, EthHdrLEN, Ipv4HdrLEN) THEN XdpResult(FALSE, "none", <<>>)
    ELSE LET dst == from_be(frame.dst_addr)
             hit == is_scalable_dst(dst)
         IN  IF hit # <<>>
             THEN IF hit[1] = 0
                  THEN XdpResult(TRUE, "XDP_DROP", << [ipv4_address |-> dst, action |-> 1] >>)
                  ELSE XdpResult(TRUE, "XDP_PASS", <<>>)
             ELSE XdpResult(TRUE, "XDP_PASS", <<>>)

\* try_xdp_scale_to_zero_fw that lets the frame pass when the buffers have no
\* room for its wake record.
try_xdp_pass_when_full(frame) ==
    IF ~ptr_at(frame, 0, EthHdrLEN) THEN XdpResult(FALSE, "none", <<>>)
    ELSE IF frame.ether_type # "Ipv4" THEN XdpResult(TRUE, "XDP_PASS", <<>>)
    ELSE IF ~ptr_at(frame, EthHdrLEN, Ipv4HdrLEN) THEN XdpResult(FALSE, "none", <<>>)
    ELSE LET dst == from_be(frame.dst_addr)
             hit == is_scalable_dst(dst)
             full == \A c \in Cpus : Len(SCALE_REQUESTS[c]) >= RingCap
         IN  IF hit # <<>>
             THEN IF hit[1] = 0
                  THEN XdpResult(TRUE, IF full THEN "XDP_PASS" ELSE "XDP_DROP",
                                 << [ipv4_address |-> dst, action |-> 1] >>)
                  ELSE XdpResult(TRUE, "XDP_PASS", << [ipv4_address |-> dst, action |-> 0] >>)
             ELSE XdpResult(TRUE, "XDP_PASS", <<>>)

\* try_xdp_scale_to_zero_fw: the Result, with the PacketLog records handed to
\* SCALE_REQUESTS.output on the way.
try_xdp_scale_to_zero_fw(frame) ==
    IF ~ptr_at(frame, 0, EthHdrLEN) THEN XdpResult(FALSE, "none", <<>>)
    ELSE IF frame.ether_type # "Ipv4" THEN XdpResult(TRUE, "XDP_PASS", <<>>)
    ELSE IF ~ptr_at(frame, EthHdrLEN, Ipv4HdrLEN) THEN XdpResult(FALSE, "none", <<>>)
    ELSE LET dst == from_be(frame.dst_addr)
             hit == is_scalable_dst(dst)
         IN  IF hit # <<>>
             THEN IF hit[1] = 0
                  THEN XdpResult(TRUE, "XDP_DROP", << [ipv4_address |-> dst, action |-> 1] >>)
                  ELSE XdpResult(TRUE, "XDP_PASS", << [ipv4_address |-> dst, action |-> 0] >>)
             ELSE XdpResult(TRUE, "XDP_PASS", <<>>)

\* xdp_scale_to_zero_fw: the verdict handed to the kernel.
xdp_scale_to_zero_fw(frame) ==
    LET r == try_xdp_scale_to_zero_fw(frame)
    IN  IF r.ok THEN r.ret ELSE "XDP_ABORTED"

\* SCALE_REQUESTS.output on one CPU's buffer: the record is appended, or lost
\* when the buffer is full; the result of output is not looked at.
output(ring, records) ==
    IF records = <<>> \/ Len(ring) >= RingCap THEN ring ELSE ring \o records

\* `last` after a step that is neither a classifier run under observation nor
\* a workload event.
NoOp == [op |-> "none"]

\* Whether a frame arriving now, with wake record `packet_log`, comes less
\* than RateLimitSecs after the last accepted scale_up for its address.
SoonAfterScaleUp(packet_log) ==
    LET ip == Ipv4ToString(packet_log.ipv4_address)
    IN  ip \in DOMAIN LAST_CALLED /\ now - LAST_CALLED[ip] < RateLimitSecs

\* One run of the classifier on `frame`, received on `cpu`: the buffer of that
\* CPU after SCALE_REQUESTS.output.
XdpRun(cpu, frame) ==
    LET r == try_xdp_scale_to_zero_fw(frame)
        ring == output(SCALE_REQUESTS[cpu], r.out)
    IN  /\ SCALE_REQUESTS' = [SCALE_REQUESTS EXCEPT ![cpu] = ring]
        /\ arrived' = IF ring = SCALE_REQUESTS[cpu] THEN arrived
                      ELSE [arrived EXCEPT ![cpu] = Append(@, SoonAfterScaleUp(r.out[1]))]
        /\ UNCHANGED << now, WATCHED_SERVICES, LAST_CALLED, workload_service, SERVICE_LIST,
                        consumer, scaler, syncer, watcher, replicas, wl_events, patches >>

\* A frame arrives while the control plane runs.
XdpPacket(cpu, frame) ==
    /\ XdpRun(cpu, frame)
    /\ last' = NoOp

\* A frame arrives, and what the classifier did with it is kept in `last`:
\* the frame, the table entry it met, the verdict, the records handed to
\* output, and the CPU's buffer before the run.
XdpObserved(cpu, frame) ==
    /\ XdpRun(cpu, frame)
    /\ last' = [op |-> "xdp", cpu |-> cpu, frame |-> frame,
                ret |-> xdp_scale_to_zero_fw(frame),
                out |-> try_xdp_scale_to_zero_fw(frame).out,
                before |-> SCALE_REQUESTS[cpu]]

\* ------------------------------------------------------------- orchestrator
\* The API object a (kind, name) of the default namespace names.
WorkloadOf(kind, name) == [kind |-> kind, name |-> name, namespace |-> "default"]

\* The watch stream of the workloads ends with the watcher task.
StreamOpen == watcher.pc \notin {"dead", "panicked"}

\* A change of spec.replicas is taken when its applied event fits the stream.
CanApply(w, r) ==
    \/ replicas[w] = r
    \/ ~StreamOpen
    \/ Len(wl_events[w]) < MaxPending

\* Setting spec.replicas: an applied event follows when the object changed.
ApplyReplicas(w, r) ==
    /\ replicas' = [replicas EXCEPT ![w] = r]
    /\ wl_events' = IF replicas[w] # r /\ StreamOpen
                    THEN [wl_events EXCEPT ![w] = Append(@, r)]
                    ELSE wl_events

\* Somebody other than this controller sets spec.replicas of a workload.
EnvScale(w, r) ==
    /\ r # replicas[w]
    /\ CanApply(w, r)
    /\ ApplyReplicas(w, r)
    /\ last' = NoOp
    /\ UNCHANGED << now, WATCHED_SERVICES, LAST_CALLED, workload_service, SERVICE_LIST,
                    SCALE_REQUESTS, arrived, consumer, scaler, syncer, watcher, patches >>

\* The clock advances by a second.
Tick ==
    /\ now < MaxTime
    /\ now' = now + 1
    /\ last' = NoOp
    /\ UNCHANGED << WATCHED_SERVICES, LAST_CALLED, workload_service, SERVICE_LIST,
                    SCALE_REQUESTS, arrived, consumer, scaler, syncer, watcher, replicas, wl_events,
                    patches >>

\* -------------------------------------------------------------------- locks
\* Guards with the registry mutex held by the scale_down loop across its
\* patch call.
Guards_held_across_patch(task, pc) ==
    IF task = "scale_down" /\ pc = "patch" THEN {"WATCHED_SERVICES"} ELSE {}

\* The MutexGuards alive while `task` is suspended at `pc`.  Every
\* lock().unwrap() of the program stands in a block of its own, or in one
\* statement (sync_data), that ends before the next .await and before the
\* sleeps: no guard lives at any suspension point.
Guards(task, pc) == {}

\* The tasks that hold mutex m where they are suspended.
Holders(m) ==
    {<<"consumer", c>> : c \in {c \in Cpus : m \in Guards("consumer", consumer[c].pc)}}
      \cup (IF m \in Guards("scale_down", scaler.pc) THEN {<<"scale_down">>} ELSE {})
      \cup (IF m \in Guards("sync", syncer.pc) THEN {<<"sync">>} ELSE {})
      \cup (IF m \in Guards("watcher", watcher.pc) THEN {<<"watcher">>} ELSE {})

\* lock() returns only when no other task holds the mutex.
Free(m) == Holders(m) = {}

\* The registry mutex is poisoned: a task panicked inside a block that held
\* its guard (the unwrap of scale_up's lookup, of process_resource's lookup).
\* Every later lock().unwrap() on it panics.
Poisoned == (\E c \in Cpus : consumer[c].pc = "panicked") \/ watcher.pc = "panicked"

\* ------------------------------------------------------------ wake consumer
NoService == [kind |-> "", name |-> ""]
ConsumerIdle ==
    [pc |-> "idle", ip |-> <<>>, now |-> 0, soon |-> FALSE, service |-> NoService]

\* process_packet that stamps last_packet_time for action = 0 only.
process_packet_live_only(c) ==
    /\ consumer[c].pc = "idle"
    /\ SCALE_REQUESTS[c] # <<>>
    /\ Free("WATCHED_SERVICES")
    /\ LET packet_log == Head(SCALE_REQUESTS[c])
           dist_addr == Ipv4ToString(packet_log.ipv4_address)
       IN  /\ SCALE_REQUESTS' = [SCALE_REQUESTS EXCEPT ![c] = Tail(@)]
           /\ arrived' = [arrived EXCEPT ![c] = Tail(@)]
           /\ IF is_loopback(packet_log.ipv4_address)
              THEN UNCHANGED << WATCHED_SERVICES, consumer >>
              ELSE IF Poisoned
              THEN /\ consumer' = [consumer EXCEPT ![c].pc = "panicked"]
                   /\ UNCHANGED WATCHED_SERVICES
              ELSE /\ WATCHED_SERVICES' =
                        IF dist_addr \in DOMAIN WATCHED_SERVICES /\ packet_log.action = 0
                        THEN [WATCHED_SERVICES EXCEPT ![dist_addr].last_packet_time = now]
                        ELSE WATCHED_SERVICES
                   /\ consumer' =
                        IF packet_log.action = 1
                        THEN [consumer EXCEPT ![c] = [pc |-> "su_limit", ip |-> dist_addr,
                                                      now |-> now,
                                                      soon |-> Head(arrived[c]),
                                                      service |-> NoService]]
                        ELSE consumer
    /\ last' = NoOp
    /\ UNCHANGED << now, LAST_CALLED, workload_service, SERVICE_LIST, scaler, syncer,
                    watcher, replicas, wl_events, patches >>

\* process_packet that calls scale_up for every event, whatever its action.
process_packet_always_wakes(c) ==
    /\ consumer[c].pc = "idle"
    /\ SCALE_REQUESTS[c] # <<>>
    /\ Free("WATCHED_SERVICES")
    /\ LET packet_log == Head(SCALE_REQUESTS[c])
           dist_addr == Ipv4ToString(packet_log.ipv4_address)
       IN  /\ SCALE_REQUESTS' = [SCALE_REQUESTS EXCEPT ![c] = Tail(@)]
           /\ arrived' = [arrived EXCEPT ![c] = Tail(@)]
           /\ IF is_loopback(packet_log.ipv4_address)
              THEN UNCHANGED << WATCHED_SERVICES, consumer >>
              ELSE IF Poisoned
              THEN /\ consumer' = [consumer EXCEPT ![c].pc = "panicked"]
                   /\ UNCHANGED WATCHED_SERVICES
              ELSE /\ WATCHED_SERVICES' =
                        IF dist_addr \in DOMAIN WATCHED_SERVICES
                        THEN [WATCHED_SERVICES EXCEPT ![dist_addr].last_packet_time = now]
                        ELSE WATCHED_SERVICES
                   /\ consumer' =
                        [consumer EXCEPT ![c] = [pc |-> "su_limit", ip |-> dist_addr,
                                                 now |-> now,
                                                 soon |-> Head(arrived[c]),
                                                 service |-> NoService]]
    /\ last' = NoOp
    /\ UNCHANGED << now, LAST_CALLED, workload_service, SERVICE_LIST, scaler, syncer,
                    watcher, replicas, wl_events, patches >>

\* process_packet up to the call of scale_up, and the first line of scale_up
\* (let now = SystemTime::now()).
process_packet(c) ==
    /\ consumer[c].pc = "idle"
    /\ SCALE_REQUESTS[c] # <<>>
    /\ Free("WATCHED_SERVICES")
    /\ LET packet_log == Head(SCALE_REQUESTS[c])
           dist_addr == Ipv4ToString(packet_log.ipv4_address)
       IN  /\ SCALE_REQUESTS' = [SCALE_REQUESTS EXCEPT ![c] = Tail(@)]
           /\ arrived' = [arrived EXCEPT ![c] = Tail(@)]
           /\ IF is_loopback(packet_log.ipv4_address)
              THEN UNCHANGED << WATCHED_SERVICES, consumer >>
              ELSE IF Poisoned
              THEN /\ consumer' = [consumer EXCEPT ![c].pc = "panicked"]
                   /\ UNCHANGED WATCHED_SERVICES
              ELSE /\ WATCHED_SERVICES' =
                        IF dist_addr \in DOMAIN WATCHED_SERVICES
                        THEN [WATCHED_SERVICES EXCEPT ![dist_addr].last_packet_time = now]
                        ELSE WATCHED_SERVICES
                   /\ consumer' =
                        IF packet_log.action = 1
                        THEN [consumer EXCEPT ![c] = [pc |-> "su_limit", ip |-> dist_addr,
                                                      now |-> now,
                                                      soon |-> Head(arrived[c]),
                                                      service |-> NoService]]
                        ELSE consumer
    /\ last' = NoOp
    /\ UNCHANGED << now, LAST_CALLED, workload_service, SERVICE_LIST, scaler, syncer,
                    watcher, replicas, wl_events, patches >>

\* RateLimit with the comparison turned round: a call is refused when the
\* last one is more than RateLimitSecs ago.
RateLimit_inverted(ip, at) ==
    IF ip \in DOMAIN LAST_CALLED
    THEN IF at < LAST_CALLED[ip] THEN "clock"
         ELSE IF at - LAST_CALLED[ip] > RateLimitSecs THEN "limited"
         ELSE "pass"
    ELSE "pass"

\* The rate limiter's verdict on a call made at `at` for `ip`:
\* "clock" is the Err of duration_since (the recorded time is later than `at`).
RateLimit(ip, at) ==
    IF ip \in DOMAIN LAST_CALLED
    THEN IF at < LAST_CALLED[ip] THEN "clock"
         ELSE IF at - LAST_CALLED[ip] < RateLimitSecs THEN "limited"
         ELSE "pass"
    ELSE "pass"

\* scale_up_limit that lets a call pass without recording it.
scale_up_limit_no_record(c) ==
    /\ consumer[c].pc = "su_limit"
    /\ Free("LAST_CALLED")
    /\ consumer' = IF RateLimit(consumer[c].ip, consumer[c].now) = "pass"
                   THEN [consumer EXCEPT ![c].pc = "su_get", ![c].now = 0, ![c].soon = FALSE]
                   ELSE [consumer EXCEPT ![c] = ConsumerIdle]
    /\ last' = NoOp
    /\ UNCHANGED << now, WATCHED_SERVICES, LAST_CALLED, workload_service, SERVICE_LIST,
                    SCALE_REQUESTS, arrived, scaler, syncer, watcher, replicas, wl_events,
                    patches >>

\* scale_up_limit that records the time of every call, the rejected ones too.
scale_up_limit_refresh(c) ==
    /\ consumer[c].pc = "su_limit"
    /\ Free("LAST_CALLED")
    /\ LAST_CALLED' = IF RateLimit(consumer[c].ip, consumer[c].now) = "clock"
                      THEN LAST_CALLED
                      ELSE Put(LAST_CALLED, consumer[c].ip, consumer[c].now)
    /\ consumer' = IF RateLimit(consumer[c].ip, consumer[c].now) = "pass"
                   THEN [consumer EXCEPT ![c].pc = "su_get", ![c].now = 0, ![c].soon = FALSE]
                   ELSE [consumer EXCEPT ![c] = ConsumerIdle]
    /\ last' = NoOp
    /\ UNCHANGED << now, WATCHED_SERVICES, workload_service, SERVICE_LIST,
                    SCALE_REQUESTS, arrived, scaler, syncer, watcher, replicas, wl_events,
                    patches >>

\* scale_up: the check-and-insert under the LAST_CALLED lock.
scale_up_limit(c) ==
    /\ consumer[c].pc = "su_limit"
    /\ Free("LAST_CALLED")
    /\ IF RateLimit(consumer[c].ip, consumer[c].now) = "pass"
       THEN /\ LAST_CALLED' = Put(LAST_CALLED, consumer[c].ip, consumer[c].now)
            /\ consumer' = [consumer EXCEPT ![c].pc = "su_get", ![c].now = 0,
                                             ![c].soon = FALSE]
       ELSE /\ LAST_CALLED' = LAST_CALLED
            /\ consumer' = [consumer EXCEPT ![c] = ConsumerIdle]
    /\ last' = NoOp
    /\ UNCHANGED << now, WATCHED_SERVICES, workload_service, SERVICE_LIST, SCALE_REQUESTS, arrived,
                    scaler, syncer, watcher, replicas, wl_events, patches >>

\* scale_up_get whose lookup never finds the record.
scale_up_get_none(c) ==
    /\ consumer[c].pc = "su_get"
    /\ Free("WATCHED_SERVICES")
    /\ consumer' = [consumer EXCEPT ![c].pc = "panicked"]
    /\ last' = NoOp
    /\ UNCHANGED << now, WATCHED_SERVICES, LAST_CALLED, workload_service, SERVICE_LIST,
                    SCALE_REQUESTS, arrived, scaler, syncer, watcher, replicas, wl_events, patches >>

\* scale_up: after the client is built, the clone of the record under the
\* registry lock; the unwrap panics the task when there is no record.  The
\* clone's backend_available is set; the registry is not written.
scale_up_get(c) ==
    /\ consumer[c].pc = "su_get"
    /\ Free("WATCHED_SERVICES")
    /\ consumer' =
         IF ~Poisoned /\ consumer[c].ip \in DOMAIN WATCHED_SERVICES
         THEN [consumer EXCEPT ![c].pc = "su_patch",
                               ![c].service = [kind |-> WATCHED_SERVICES[consumer[c].ip].kind,
                                               name |-> WATCHED_SERVICES[consumer[c].ip].name]]
         ELSE [consumer EXCEPT ![c].pc = "panicked"]
    /\ last' = NoOp
    /\ UNCHANGED << now, WATCHED_SERVICES, LAST_CALLED, workload_service, SERVICE_LIST,
                    SCALE_REQUESTS, arrived, scaler, syncer, watcher, replicas, wl_events, patches >>

\* scale_up: the merge patch {"spec": {"replicas": 1}} and its outcome; the
\* caller logs an Err and goes on with the next event.
scale_up_patch(c) ==
    /\ consumer[c].pc = "su_patch"
    /\ LET w == WorkloadOf(consumer[c].service.kind, consumer[c].service.name)
       IN  \/ /\ CanApply(w, 1)
              /\ ApplyReplicas(w, 1)
           \/ UNCHANGED << replicas, wl_events >>
    /\ patches' = Put(patches, consumer[c].ip, now)
    /\ consumer' = [consumer EXCEPT ![c] = ConsumerIdle]
    /\ last' = NoOp
    /\ UNCHANGED << now, WATCHED_SERVICES, LAST_CALLED, workload_service, SERVICE_LIST,
                    SCALE_REQUESTS, arrived, scaler, syncer, watcher >>

\* ------------------------------------------------------------- scale_down
ScalerIdle == [pc |-> "loop", keys |-> {}, key |-> <<>>, service |-> <<>>]

\* The head of the loop: the keys of the registry, cloned under the lock
\* (after the sleep that ends the pass before).
scale_down_keys ==
    /\ scaler.pc = "loop"
    /\ scaler.keys = {}
    /\ WATCHED_SERVICES # EmptyMap
    /\ Free("WATCHED_SERVICES") /\ ~Poisoned
    /\ scaler' = [scaler EXCEPT !.keys = DOMAIN WATCHED_SERVICES]
    /\ last' = NoOp
    /\ UNCHANGED << now, WATCHED_SERVICES, LAST_CALLED, workload_service, SERVICE_LIST,
                    SCALE_REQUESTS, arrived, consumer, syncer, watcher, replicas, wl_events, patches >>

\* scale_down_due with < for >: due while the idle time is below
\* scale_down_time.
scale_down_due_reversed(service, t) ==
    t - service.last_packet_time < service.scale_down_time /\ service.backend_available

\* The test of the loop body on the clone `service`, with the clock at `t`.
scale_down_due(service, t) ==
    t - service.last_packet_time > service.scale_down_time /\ service.backend_available

\* One key of the pass: the clone of its record under the lock, the test, and
\* for an idle service the clone marked unavailable before the patch is sent.
scale_down_next(key) ==
    /\ scaler.pc = "loop"
    /\ key \in scaler.keys
    /\ Free("WATCHED_SERVICES") /\ ~Poisoned
    /\ LET service == WATCHED_SERVICES[key]
       IN  scaler' =
             IF scale_down_due(service, now)
             THEN [pc |-> "patch", keys |-> scaler.keys \ {key}, key |-> key,
                   service |-> << [service EXCEPT !.backend_available = FALSE] >>]
             ELSE [scaler EXCEPT !.keys = scaler.keys \ {key}]
    /\ last' = NoOp
    /\ UNCHANGED << now, WATCHED_SERVICES, LAST_CALLED, workload_service, SERVICE_LIST,
                    SCALE_REQUESTS, arrived, consumer, syncer, watcher, replicas, wl_events, patches >>

\* The merge patch {"spec": {"replicas": 0}}: taken by the orchestrator, or
\* failed, and then the Err leaves scale_down and the task ends.
scale_down_patch ==
    /\ scaler.pc = "patch"
    /\ LET w == WorkloadOf(scaler.service[1].kind, scaler.service[1].name)
       IN  \/ /\ CanApply(w, 0)
              /\ ApplyReplicas(w, 0)
              /\ scaler' = [scaler EXCEPT !.pc = "write"]
           \/ /\ UNCHANGED << replicas, wl_events >>
              /\ scaler' = [ScalerIdle EXCEPT !.pc = "dead"]
    /\ last' = NoOp
    /\ UNCHANGED << now, WATCHED_SERVICES, LAST_CALLED, workload_service, SERVICE_LIST,
                    SCALE_REQUESTS, arrived, consumer, syncer, watcher, patches >>

\* After the patch: *service_to_update = service, the clone written back
\* whole under the lock.
scale_down_write ==
    /\ scaler.pc = "write"
    /\ Free("WATCHED_SERVICES") /\ ~Poisoned
    /\ WATCHED_SERVICES' = [WATCHED_SERVICES EXCEPT ![scaler.key] = scaler.service[1]]
    /\ scaler' = [ScalerIdle EXCEPT !.keys = scaler.keys]
    /\ last' = NoOp
    /\ UNCHANGED << now, LAST_CALLED, workload_service, SERVICE_LIST, SCALE_REQUESTS, arrived,
                    consumer, syncer, watcher, replicas, wl_events, patches >>

\* --------------------------------------------------------------- sync_data
SyncerIdle == [pc |-> "snapshot", pod_ips |-> EmptyMap]

\* Projection with the octets of each key taken in little-endian order.
Projection_le(services) ==
    [a \in {from_be(<< k[4], k[3], k[2], k[1] >>) : k \in DOMAIN services} |->
        LET k == CHOOSE k \in DOMAIN services : from_be(<< k[4], k[3], k[2], k[1] >>) = a
        IN  IF services[k].backend_available THEN 1 ELSE 0]

\* pod_ips: the registry as address -> flag, collected under the lock.
Projection(services) ==
    [a \in {ParseIpv4(k) : k \in DOMAIN services} |->
        LET k == CHOOSE k \in DOMAIN services : ParseIpv4(k) = a
        IN  IF services[k].backend_available THEN 1 ELSE 0]

\* The first statement of a pass: pod_ips collected under the lock.
sync_snapshot ==
    /\ syncer.pc = "snapshot"
    /\ Free("WATCHED_SERVICES") /\ ~Poisoned
    /\ syncer' = [pc |-> "apply", pod_ips |-> Projection(WATCHED_SERVICES)]
    /\ last' = NoOp
    /\ UNCHANGED << now, WATCHED_SERVICES, LAST_CALLED, workload_service, SERVICE_LIST,
                    SCALE_REQUESTS, arrived, consumer, scaler, watcher, replicas, wl_events, patches >>

\* MapInsert that leaves a key the map holds as it is (BPF_NOEXIST).
MapInsert_noexist(m, key, value) ==
    IF key \in DOMAIN m \/ Cardinality(DOMAIN m) >= MaxEntries THEN m
    ELSE Put(m, key, value)

\* scalable_service_list.insert: a new key needs a free slot of the map.
MapInsert(m, key, value) ==
    IF key \notin DOMAIN m /\ Cardinality(DOMAIN m) >= MaxEntries THEN m
    ELSE Put(m, key, value)

\* SyncInsertKeys that has insert called for every key of pod_ips.
SyncInsertKeys_all(m, pod_ips) == DOMAIN pod_ips

\* The keys of pod_ips the first loop of sync_data calls insert for: those
\* the kernel map lacks (get is Err) or holds with another value.
SyncInsertKeys(m, pod_ips) ==
    {k \in DOMAIN pod_ips : ~(k \in DOMAIN m /\ m[k] = pod_ips[k])}

\* The first loop of sync_data: every (key, value) of pod_ips is written when
\* the kernel map lacks the key or holds another value.
RECURSIVE SyncInserts(_, _, _)
SyncInserts(m, pod_ips, todo) ==
    IF todo = {} THEN m
    ELSE LET key == CHOOSE k \in todo : TRUE
             m2 == IF key \in SyncInsertKeys(m, pod_ips)
                   THEN MapInsert(m, key, pod_ips[key])
                   ELSE m
         IN  SyncInserts(m2, pod_ips, todo \ {key})

\* The keys of the kernel map the second loop of sync_data calls remove for:
\* those pod_ips lacks.
SyncRemoveKeys(m, pod_ips) == {k \in DOMAIN m : k \notin DOMAIN pod_ips}

\* The second loop of sync_data: every key of the kernel map that pod_ips
\* lacks is removed.
SyncRemoves(m, pod_ips) == [k \in (DOMAIN m) \ SyncRemoveKeys(m, pod_ips) |-> m[k]]

\* sync_data that writes only the keys the kernel map lacks.
sync_data_add_only(m, pod_ips) ==
    SyncRemoves([k \in DOMAIN m \cup DOMAIN pod_ips |->
                    IF k \in DOMAIN m THEN m[k] ELSE pod_ips[k]], pod_ips)

sync_data(m, pod_ips) == SyncRemoves(SyncInserts(m, pod_ips, DOMAIN pod_ips), pod_ips)

\* The two loops over the kernel map, then the sleep.
sync_apply ==
    /\ syncer.pc = "apply"
    /\ SERVICE_LIST' = sync_data(SERVICE_LIST, syncer.pod_ips)
    /\ syncer' = SyncerIdle
    /\ last' = NoOp
    /\ UNCHANGED << now, WATCHED_SERVICES, LAST_CALLED, workload_service, SCALE_REQUESTS, arrived,
                    consumer, scaler, watcher, replicas, wl_events, patches >>

\* ------------------------------------------------------- kube_event_watcher
AnnReference == "scale-to-zero.isala.me/reference"
AnnScaleDownTime == "scale-to-zero.isala.me/scale-down-time"

\* A Service object: its name, its annotations (a map; the value of the
\* reference annotation as its text split at '/'), and spec.cluster_ip (an
\* Option as a sequence).
Service(name, annotations, cluster_ip) ==
    [name |-> name, annotations |-> annotations, cluster_ip |-> cluster_ip]

Annotations(reference, scale_down_time) ==
    [k \in {AnnReference, AnnScaleDownTime} |->
        IF k = AnnReference THEN reference ELSE scale_down_time]

SvcA == Service("svc-a", Annotations(<<"deployment", "foo">>, "1"), <<IpA>>)
SvcB == Service("svc-b", Annotations(<<"statefulset", "bar">>, "2"), <<IpB>>)
SvcPlain == Service("plain", EmptyMap, <<IpOther>>)

\* Services that carry one of the two annotations only.
SvcRefOnly ==
    Service("ref-only", [k \in {AnnReference} |-> <<"deployment", "foo">>], <<IpOther>>)
SvcTimeOnly ==
    Service("time-only", [k \in {AnnScaleDownTime} |-> "1"], <<IpOther>>)

\* Services whose reference is "foo" (no '/') or "deployment/foo/x" (the
\* latter without a scale-down-time), names the kind daemonset, or
\* names a Deployment the cluster does not hold; a Service whose
\* scale-down-time is no integer.
SvcBadRef == Service("bad-ref", Annotations(<<"foo">>, "1"), <<IpOther>>)
SvcBadRefOnly ==
    Service("bad-ref-only", [k \in {AnnReference} |-> <<"deployment", "foo", "x">>], <<IpOther>>)
SvcUnknownKind == Service("unknown-kind", Annotations(<<"daemonset", "foo">>, "1"), <<IpOther>>)
SvcMissing == Service("missing", Annotations(<<"deployment", "ghost">>, "1"), <<IpOther>>)
SvcBadTime == Service("bad-time", Annotations(<<"deployment", "foo">>, "soon"), <<IpOther>>)

\* The Service objects whose applied events the stream delivers.
ServiceEvents ==
    {SvcA, SvcB, SvcPlain, SvcRefOnly, SvcTimeOnly, SvcBadRef, SvcBadRefOnly, SvcUnknownKind,
     SvcMissing, SvcBadTime}

\* str::parse::<i64>, an Option as a sequence.
ParseI64(text) ==
    CASE text = "0" -> <<0>>
      [] text = "1" -> <<1>>
      [] text = "2" -> <<2>>
      [] text = "-1" -> <<-1>>
      [] OTHER -> <<>>

WatcherIdle == [pc |-> "idle", service |-> <<>>, kind |-> "", name |-> "", replicas |-> 0,
                scale_down_time |-> 0]
WatcherDead == [WatcherIdle EXCEPT !.pc = "dead"]
WatcherPanicked == [WatcherIdle EXCEPT !.pc = "panicked"]

\* WatchedService that takes a workload the cluster does not hold as one with
\* 0 replicas.
WatchedService_missing_as_zero(s) ==
    LET anns == s.annotations IN
    IF AnnReference \notin DOMAIN anns /\ AnnScaleDownTime \notin DOMAIN anns
    THEN WatcherIdle
    ELSE IF AnnReference \notin DOMAIN anns THEN WatcherDead
    ELSE LET workload_ref_split == anns[AnnReference] IN
    IF Len(workload_ref_split) # 2 THEN WatcherIdle
    ELSE IF AnnScaleDownTime \notin DOMAIN anns THEN WatcherDead
    ELSE LET scale_down_time == ParseI64(anns[AnnScaleDownTime]) IN
    IF scale_down_time = <<>> THEN WatcherDead
    ELSE IF s.cluster_ip = <<>> THEN WatcherDead
    ELSE LET workload_type == workload_ref_split[1]
             workload_name == workload_ref_split[2]
             w == WorkloadOf(workload_type, workload_name)
         IN
    IF workload_type \in {"deployment", "statefulset"}
    THEN [pc |-> "insert", service |-> <<s>>, kind |-> workload_type,
          name |-> workload_name,
          replicas |-> IF w \in DOMAIN replicas THEN replicas[w] ELSE 0,
          scale_down_time |-> scale_down_time[1]]
    ELSE WatcherIdle

\* WatchedService whose Err for an unknown kind leaves kube_event_watcher.
WatchedService_unknown_kind_fatal(s) ==
    LET anns == s.annotations IN
    IF AnnReference \notin DOMAIN anns /\ AnnScaleDownTime \notin DOMAIN anns
    THEN WatcherIdle
    ELSE IF AnnReference \notin DOMAIN anns THEN WatcherDead
    ELSE LET workload_ref_split == anns[AnnReference] IN
    IF Len(workload_ref_split) # 2 THEN WatcherIdle
    ELSE IF AnnScaleDownTime \notin DOMAIN anns THEN WatcherDead
    ELSE LET scale_down_time == ParseI64(anns[AnnScaleDownTime]) IN
    IF scale_down_time = <<>> THEN WatcherDead
    ELSE IF s.cluster_ip = <<>> THEN WatcherDead
    ELSE LET workload_type == workload_ref_split[1]
             workload_name == workload_ref_split[2]
         IN
    IF workload_type \in {"deployment", "statefulset"}
    THEN IF WorkloadOf(workload_type, workload_name) \notin DOMAIN replicas
         THEN WatcherDead
         ELSE [pc |-> "insert", service |-> <<s>>, kind |-> workload_type,
               name |-> workload_name,
               replicas |-> replicas[WorkloadOf(workload_type, workload_name)],
               scale_down_time |-> scale_down_time[1]]
    ELSE WatcherDead

\* Watched::Service(s), up to the answer of the get of the workload.  The
\* result is the watcher after it: idle again (the event was skipped), dead
\* (a panic, or an Err that left kube_event_watcher), or on its way into
\* update_workload_status with the replicas the get returned.
WatchedService(s) ==
    LET anns == s.annotations IN
    IF AnnReference \notin DOMAIN anns /\ AnnScaleDownTime \notin DOMAIN anns
    THEN WatcherIdle
    ELSE IF AnnReference \notin DOMAIN anns THEN WatcherDead
    ELSE LET workload_ref_split == anns[AnnReference] IN
    IF Len(workload_ref_split) # 2 THEN WatcherIdle
    ELSE IF AnnScaleDownTime \notin DOMAIN anns THEN WatcherDead
    ELSE LET scale_down_time == ParseI64(anns[AnnScaleDownTime]) IN
    IF scale_down_time = <<>> THEN WatcherDead
    ELSE IF s.cluster_ip = <<>> THEN WatcherDead
    ELSE LET workload_type == workload_ref_split[1]
             workload_name == workload_ref_split[2]
         IN
    IF workload_type \in {"deployment", "statefulset"}
    THEN IF WorkloadOf(workload_type, workload_name) \notin DOMAIN replicas
         THEN WatcherDead
         ELSE [pc |-> "insert", service |-> <<s>>, kind |-> workload_type,
               name |-> workload_name,
               replicas |-> replicas[WorkloadOf(workload_type, workload_name)],
               scale_down_time |-> scale_down_time[1]]
    ELSE WatcherIdle

\* An applied Service event is taken from the stream.
watch_service(s) ==
    /\ watcher.pc = "idle"
    /\ watcher' = WatchedService(s)
    /\ wl_events' = IF WatchedService(s).pc = "dead"
                    THEN [w \in Workloads |-> <<>>] ELSE wl_events
    /\ last' = NoOp
    /\ UNCHANGED << now, WATCHED_SERVICES, LAST_CALLED, workload_service, SERVICE_LIST,
                    SCALE_REQUESTS, arrived, consumer, scaler, syncer, replicas, patches >>

\* ServiceData as update_workload_status builds it.
ServiceData(scale_down_time, last_packet_time, kind, name, namespace, backend_available) ==
    [scale_down_time |-> scale_down_time, last_packet_time |-> last_packet_time,
     kind |-> kind, name |-> name, namespace |-> namespace,
     backend_available |-> backend_available]

\* update_workload_status that puts the Service into the index and leaves
\* the registry as it is.
update_workload_status_index_only ==
    /\ watcher.pc = "insert"
    /\ Free("WATCHED_SERVICES") /\ ~Poisoned
    /\ workload_service' =
         Put(workload_service, WorkloadOf(watcher.kind, watcher.name), watcher.service[1])
    /\ watcher' = WatcherIdle
    /\ last' = NoOp
    /\ UNCHANGED << now, WATCHED_SERVICES, LAST_CALLED, SERVICE_LIST, SCALE_REQUESTS, arrived,
                    consumer, scaler, syncer, replicas, wl_events, patches >>

\* update_workload_status that keeps the last_packet_time of a record the
\* registry already holds.
update_workload_status_keep_time ==
    /\ watcher.pc = "insert"
    /\ Free("WATCHED_SERVICES") /\ ~Poisoned
    /\ LET service == watcher.service[1]
           service_ip == service.cluster_ip[1]
           seen == IF service_ip \in DOMAIN WATCHED_SERVICES
                   THEN WATCHED_SERVICES[service_ip].last_packet_time ELSE now
       IN  /\ workload_service' =
                Put(workload_service, WorkloadOf(watcher.kind, watcher.name), service)
           /\ WATCHED_SERVICES' =
                Put(WATCHED_SERVICES, service_ip,
                    ServiceData(watcher.scale_down_time, seen, watcher.kind, watcher.name,
                                "default", watcher.replicas >= 1))
    /\ watcher' = WatcherIdle
    /\ last' = NoOp
    /\ UNCHANGED << now, LAST_CALLED, SERVICE_LIST, SCALE_REQUESTS, arrived, consumer, scaler, syncer,
                    replicas, wl_events, patches >>

\* update_workload_status, after its sleep: the index entry and the record.
update_workload_status ==
    /\ watcher.pc = "insert"
    /\ Free("WATCHED_SERVICES") /\ ~Poisoned
    /\ LET service == watcher.service[1]
           service_ip == service.cluster_ip[1]
       IN  /\ workload_service' =
                Put(workload_service, WorkloadOf(watcher.kind, watcher.name), service)
           /\ WATCHED_SERVICES' =
                Put(WATCHED_SERVICES, service_ip,
                    ServiceData(watcher.scale_down_time, now, watcher.kind, watcher.name,
                                "default", watcher.replicas >= 1))
    /\ watcher' = WatcherIdle
    /\ last' = NoOp
    /\ UNCHANGED << now, LAST_CALLED, SERVICE_LIST, SCALE_REQUESTS, arrived, consumer, scaler, syncer,
                    replicas, wl_events, patches >>

\* process_resource with > 1 for >= 1.
process_resource_more_than_one(w, event_replicas) ==
    IF w \notin DOMAIN workload_service THEN <<WATCHED_SERVICES>>
    ELSE LET service_ip == workload_service[w].cluster_ip[1]
         IN  IF service_ip \notin DOMAIN WATCHED_SERVICES THEN <<>>
             ELSE << [WATCHED_SERVICES EXCEPT
                        ![service_ip].backend_available = event_replicas > 1] >>

\* process_resource that applies the replicas of a workload without an index
\* entry to every record of the registry.
process_resource_unindexed_to_all(w, event_replicas) ==
    IF w \notin DOMAIN workload_service
    THEN << [ip \in DOMAIN WATCHED_SERVICES |->
               [WATCHED_SERVICES[ip] EXCEPT !.backend_available = event_replicas >= 1]] >>
    ELSE LET service_ip == workload_service[w].cluster_ip[1]
         IN  IF service_ip \notin DOMAIN WATCHED_SERVICES THEN <<>>
             ELSE << [WATCHED_SERVICES EXCEPT
                        ![service_ip].backend_available = event_replicas >= 1] >>

\* process_resource on the registry: the record of the Service the index
\* holds for the workload gets backend_available = (replicas >= 1); without
\* an index entry nothing changes.  <<>> stands for the panic of the unwrap.
process_resource(w, event_replicas) ==
    IF w \notin DOMAIN workload_service THEN <<WATCHED_SERVICES>>
    ELSE LET service_ip == workload_service[w].cluster_ip[1]
         IN  IF service_ip \notin DOMAIN WATCHED_SERVICES THEN <<>>
             ELSE << [WATCHED_SERVICES EXCEPT
                        ![service_ip].backend_available = event_replicas >= 1] >>

\* Watched::Deployment(d) / Watched::StatefulSet(sts): the next applied event
\* of workload w is taken from the stream.
watch_workload(w) ==
    /\ watcher.pc = "idle"
    /\ wl_events[w] # <<>>
    /\ w \notin DOMAIN workload_service \/ (Free("WATCHED_SERVICES") /\ ~Poisoned)
    /\ LET after == process_resource(w, Head(wl_events[w]))
       IN  IF after = <<>>
           THEN /\ watcher' = WatcherPanicked
                /\ wl_events' = [x \in Workloads |-> <<>>]
                /\ last' = NoOp
                /\ UNCHANGED WATCHED_SERVICES
           ELSE /\ watcher' = watcher
                /\ wl_events' = [wl_events EXCEPT ![w] = Tail(@)]
                /\ WATCHED_SERVICES' = after[1]
                /\ last' = [op |-> "workload", workload |-> w,
                            replicas |-> Head(wl_events[w])]
    /\ UNCHANGED << now, LAST_CALLED, workload_service, SERVICE_LIST, SCALE_REQUESTS, arrived,
                    consumer, scaler, syncer, replicas, patches >>

\* ------------------------------------------------------------ specification
Init ==
    /\ now = 0
    /\ WATCHED_SERVICES = EmptyMap
    /\ LAST_CALLED = EmptyMap
    /\ workload_service = EmptyMap
    /\ SERVICE_LIST = EmptyMap
    /\ SCALE_REQUESTS = [c \in Cpus |-> <<>>]
    /\ arrived = [c \in Cpus |-> <<>>]
    /\ last = NoOp
    /\ consumer = [c \in Cpus |-> ConsumerIdle]
    /\ scaler = ScalerIdle
    /\ syncer = SyncerIdle
    /\ watcher = WatcherIdle
    /\ replicas \in [Workloads -> {0, 1}]
    /\ wl_events = [w \in Workloads |-> <<replicas[w]>>]
    /\ patches = EmptyMap

\* Every task of the program, with its whole environment.
Next ==
    \/ Tick
    \/ \E c \in Cpus, frame \in Frames : XdpPacket(c, frame)
    \/ \E w \in Workloads, r \in 0..MaxReplicas : EnvScale(w, r)
    \/ \E c \in Cpus : process_packet(c)
    \/ \E c \in Cpus : scale_up_limit(c)
    \/ \E c \in Cpus : scale_up_get(c)
    \/ \E c \in Cpus : scale_up_patch(c)
    \/ scale_down_keys
    \/ \E key \in ClusterIps : scale_down_next(key)
    \/ scale_down_patch
    \/ scale_down_write
    \/ sync_snapshot
    \/ sync_apply
    \/ \E s \in ServiceEvents : watch_service(s)
    \/ update_workload_status
    \/ \E w \in Workloads : watch_workload(w)

Spec == Init /\ [][Next]_vars

\* The state space of Spec is beyond exhaustive search; the claims are checked
\* on the four slices below.  Each starts in a state Spec reaches and runs a
\* part of the tasks, with the same actions; the tasks left out stay where
\* they are.

\* --- the classifier alone, on every table and every buffer content ---------
Flags == {0, 1}
Tables ==
    UNION { [keys -> Flags] : keys \in SUBSET {ParseIpv4(ip) : ip \in ClusterIps} }
PacketLogs == [ipv4_address : {ParseIpv4(ip) : ip \in ClusterIps}, action : {0, 1}]
Rings == UNION { [1..n -> PacketLogs] : n \in 0..RingCap }

InitXdp ==
    /\ now = 0
    /\ WATCHED_SERVICES = EmptyMap
    /\ LAST_CALLED = EmptyMap
    /\ workload_service = EmptyMap
    /\ SERVICE_LIST \in Tables
    /\ SCALE_REQUESTS \in [Cpus -> Rings]
    /\ arrived = [c \in Cpus |-> [i \in 1..Len(SCALE_REQUESTS[c]) |-> FALSE]]
    /\ last = NoOp
    /\ consumer = [c \in Cpus |-> ConsumerIdle]
    /\ scaler = ScalerIdle
    /\ syncer = SyncerIdle
    /\ watcher = WatcherIdle
    /\ replicas = [w \in Workloads |-> 1]
    /\ wl_events = [w \in Workloads |-> <<>>]
    /\ patches = EmptyMap

NextXdp == \E c \in Cpus, frame \in Frames : XdpObserved(c, frame)

SpecXdp == InitXdp /\ [][NextXdp]_vars

\* --- the registry after svc-a was applied with its workload at `n` replicas
\* and a sync pass ran: what Init reaches by watch_service(SvcA),
\* update_workload_status, watch_workload, sync_snapshot, sync_apply.
InitLoaded(n) ==
    /\ now = 0
    /\ WATCHED_SERVICES =
         [ip \in {IpA} |-> ServiceData(1, 0, "deployment", "foo", "default", n >= 1)]
    /\ LAST_CALLED = EmptyMap
    /\ workload_service = [w \in {WlDeploy} |-> SvcA]
    /\ SERVICE_LIST = Projection(WATCHED_SERVICES)
    /\ SCALE_REQUESTS = [c \in Cpus |-> <<>>]
    /\ arrived = [c \in Cpus |-> <<>>]
    /\ last = NoOp
    /\ consumer = [c \in Cpus |-> ConsumerIdle]
    /\ scaler = ScalerIdle
    /\ syncer = SyncerIdle
    /\ watcher = WatcherIdle
    /\ replicas = [w \in Workloads |-> IF w = WlDeploy THEN n ELSE 1]
    /\ wl_events = [w \in Workloads |-> IF w = WlDeploy THEN <<>> ELSE <<1>>]
    /\ patches = EmptyMap

\* --- scale-up: frames for a scaled-down service, the wake consumers of both
\* CPUs and their scale_up calls, the clock.
NextScaleUp ==
    \/ Tick
    \/ \E c \in Cpus, frame \in Frames : XdpPacket(c, frame)
    \/ \E c \in Cpus : process_packet(c)
    \/ \E c \in Cpus : scale_up_limit(c)
    \/ \E c \in Cpus : scale_up_get(c)
    \/ \E c \in Cpus : scale_up_patch(c)

SpecScaleUp == InitLoaded(0) /\ [][NextScaleUp]_vars

\* The executor runs every task that can take a step.
FairScaleUp ==
    /\ SpecScaleUp
    /\ \A c \in Cpus : /\ WF_vars(process_packet(c))
                       /\ WF_vars(scale_up_limit(c))
                       /\ WF_vars(scale_up_get(c))
                       /\ WF_vars(scale_up_patch(c))

\* --- idle scale-down: the scale_down loop against the clock, the frames of
\* one CPU for a service that is up with its wake consumer, and the watcher
\* with svc-a applied again and the workload events the patches bring.
NextIdle ==
    \/ Tick
    \/ \E frame \in Frames : XdpPacket(0, frame)
    \/ process_packet(0)
    \/ scale_down_keys
    \/ \E key \in ClusterIps : scale_down_next(key)
    \/ scale_down_patch
    \/ scale_down_write
    \/ watch_service(SvcA)
    \/ update_workload_status
    \/ \E w \in Workloads : watch_workload(w)

SpecIdle == InitLoaded(1) /\ [][NextIdle]_vars

\* --- the cluster side: the watcher on every Service and workload event, the
\* environment scaling the workloads, the sync loop.
NextCluster ==
    \/ \E w \in Workloads, r \in 0..MaxReplicas : EnvScale(w, r)
    \/ \E s \in ServiceEvents : watch_service(s)
    \/ update_workload_status
    \/ \E w \in Workloads : watch_workload(w)
    \/ sync_snapshot
    \/ sync_apply

SpecCluster == Init /\ [][NextCluster]_vars

\* --- idle scale-down to the kernel table: the clock, the scale_down loop,
\* the frames of one CPU for a service that is up with its wake consumer, the
\* workload events the patches bring, the sync loop.
NextIdleSync ==
    \/ Tick
    \/ \E frame \in Frames : XdpPacket(0, frame)
    \/ process_packet(0)
    \/ scale_down_keys
    \/ \E key \in ClusterIps : scale_down_next(key)
    \/ scale_down_patch
    \/ scale_down_write
    \/ \E w \in Workloads : watch_workload(w)
    \/ sync_snapshot
    \/ sync_apply

SpecIdleSync == InitLoaded(1) /\ [][NextIdleSync]_vars

\* The executor runs every task that can take a step; the clock and the
\* frames are not obliged to anything.
FairIdleSync ==
    /\ SpecIdleSync
    /\ WF_vars(process_packet(0))
    /\ WF_vars(scale_down_keys)
    /\ WF_vars(\E key \in ClusterIps : scale_down_next(key))
    /\ WF_vars(scale_down_patch)
    /\ WF_vars(scale_down_write)
    /\ WF_vars(\E w \in Workloads : watch_workload(w))
    /\ WF_vars(sync_snapshot)
    /\ WF_vars(sync_apply)

\* --- restoration: a scaled-down service whose workload is scaled by the
\* cluster, the watcher on the workload events, the sync loop, and the frames
\* of one CPU with what the classifier did with each.
NextRestore ==
    \/ \E w \in Workloads, r \in 0..MaxReplicas : EnvScale(w, r)
    \/ \E w \in Workloads : watch_workload(w)
    \/ sync_snapshot
    \/ sync_apply
    \/ \E frame \in Frames : XdpObserved(0, frame)

SpecRestore == InitLoaded(0) /\ [][NextRestore]_vars

FairRestore ==
    /\ SpecRestore
    /\ WF_vars(\E w \in Workloads : watch_workload(w))
    /\ WF_vars(sync_snapshot)
    /\ WF_vars(sync_apply)

\* --- applied Services against the clock: the watcher on every Service and
\* workload event, the environment scaling the workloads, the clock.
NextApply ==
    \/ Tick
    \/ \E w \in Workloads, r \in 0..MaxReplicas : EnvScale(w, r)
    \/ \E s \in ServiceEvents : watch_service(s)
    \/ update_workload_status
    \/ \E w \in Workloads : watch_workload(w)

SpecApply == Init /\ [][NextApply]_vars

\* --- the wake consumers as handlers: the buffers hold every PacketLog a
\* read can hand to process_packet, for the address of the record and for an
\* address the registry has no record of, with the service up or down.
InitWake ==
    /\ now = 0
    /\ \E up \in BOOLEAN :
         /\ WATCHED_SERVICES =
              [ip \in {IpA} |-> ServiceData(1, 0, "deployment", "foo", "default", up)]
         /\ replicas = [w \in Workloads |-> IF w = WlDeploy /\ ~up THEN 0 ELSE 1]
    /\ LAST_CALLED = EmptyMap
    /\ workload_service = [w \in {WlDeploy} |-> SvcA]
    /\ SERVICE_LIST = Projection(WATCHED_SERVICES)
    /\ SCALE_REQUESTS \in [Cpus -> Rings]
    /\ arrived = [c \in Cpus |-> [i \in 1..Len(SCALE_REQUESTS[c]) |-> FALSE]]
    /\ last = NoOp
    /\ consumer = [c \in Cpus |-> ConsumerIdle]
    /\ scaler = ScalerIdle
    /\ syncer = SyncerIdle
    /\ watcher = WatcherIdle
    /\ wl_events = [w \in Workloads |-> <<>>]
    /\ patches = EmptyMap

NextWake ==
    \/ Tick
    \/ \E c \in Cpus : process_packet(c)
    \/ \E c \in Cpus : scale_up_limit(c)
    \/ \E c \in Cpus : scale_up_get(c)
    \/ \E c \in Cpus : scale_up_patch(c)

SpecWake == InitWake /\ [][NextWake]_vars

\* --- Services applied again: svc-a with its reference changed to the
\* StatefulSet, and a second Service that references svc-a's Deployment; the
\* watcher and the environment scaling the workloads.
SvcAMoved == Service("svc-a", Annotations(<<"statefulset", "bar">>, "1"), <<IpA>>)
SvcTwin == Service("svc-twin", Annotations(<<"deployment", "foo">>, "2"), <<IpB>>)
ReappliedServices == {SvcA, SvcAMoved, SvcTwin}

NextReapply ==
    \/ \E w \in Workloads, r \in 0..MaxReplicas : EnvScale(w, r)
    \/ \E s \in ReappliedServices : watch_service(s)
    \/ update_workload_status
    \/ \E w \in Workloads : watch_workload(w)

SpecReapply == Init /\ [][NextReapply]_vars

\* --- the life of one service that is up, all tasks at once: the clock, the
\* scale_down loop, the frames of one CPU with its wake consumer and its
\* scale_up calls, the workload events the patches bring, the sync loop.
NextLifecycle ==
    \/ Tick
    \/ \E frame \in Frames : XdpPacket(0, frame)
    \/ process_packet(0)
    \/ scale_up_limit(0)
    \/ scale_up_get(0)
    \/ scale_up_patch(0)
    \/ scale_down_keys
    \/ \E key \in ClusterIps : scale_down_next(key)
    \/ scale_down_patch
    \/ scale_down_write
    \/ \E w \in Workloads : watch_workload(w)
    \/ sync_snapshot
    \/ sync_apply

SpecLifecycle == InitLoaded(1) /\ [][NextLifecycle]_vars

\* The executor runs every task of the lifecycle that can take a step; the
\* clock and the frames are not obliged to anything.
FairLifecycle ==
    /\ SpecLifecycle
    /\ WF_vars(process_packet(0))
    /\ WF_vars(scale_up_limit(0))
    /\ WF_vars(scale_up_get(0))
    /\ WF_vars(scale_up_patch(0))
    /\ WF_vars(scale_down_keys)
    /\ WF_vars(\E key \in ClusterIps : scale_down_next(key))
    /\ WF_vars(scale_down_patch)
    /\ WF_vars(scale_down_write)
    /\ WF_vars(\E w \in Workloads : watch_workload(w))
    /\ WF_vars(sync_snapshot)
    /\ WF_vars(sync_apply)

\* --- the whole program from its start for one Service: the registry is
\* built by the watcher from the applied events of svc-a, the sync loop fills
\* the kernel table, frames of one CPU meet it, the wake consumer and the
\* scale_down loop work on what they find.
NextWhole ==
    \/ Tick
    \/ \E frame \in Frames : XdpPacket(0, frame)
    \/ process_packet(0)
    \/ scale_up_limit(0)
    \/ scale_up_get(0)
    \/ scale_up_patch(0)
    \/ scale_down_keys
    \/ \E key \in ClusterIps : scale_down_next(key)
    \/ scale_down_patch
    \/ scale_down_write
    \/ watch_service(SvcA)
    \/ update_workload_status
    \/ \E w \in Workloads : watch_workload(w)
    \/ sync_snapshot
    \/ sync_apply

\* The program starts on a cluster that holds both workloads with one replica.
InitUp == Init /\ \A w \in Workloads : replicas[w] = 1

SpecWhole == InitUp /\ [][NextWhole]_vars

\* ==================================================================== claims

\* A frame long enough for both headers that carries IPv4: the frames that
\* have a destination address.
HasDestination(frame) ==
    frame.len >= EthHdrLEN + Ipv4HdrLEN /\ frame.ether_type = "Ipv4"

\* The buffer of a CPU after one record was offered to it.
Offered(before, record) ==
    IF Len(before) < RingCap THEN Append(before, record) ELSE before

\* The observed classifier run met flag `flag` for the frame's destination.
XdpMet(flag) ==
    /\ last.op = "xdp"
    /\ HasDestination(last.frame)
    /\ ParseIpv4(last.frame.dst_addr) \in DOMAIN SERVICE_LIST
    /\ SERVICE_LIST[ParseIpv4(last.frame.dst_addr)] = flag

\* C1: a frame whose destination is a key of the table with flag 0 is
\* dropped, and exactly one record {ip = destination, action = 1} is handed to
\* the CPU's buffer (which holds it unless it is full).
C1_DropAndWake ==
    XdpMet(0) =>
        LET wake == [ipv4_address |-> ParseIpv4(last.frame.dst_addr), action |-> 1]
        IN  /\ last.ret = "XDP_DROP"
            /\ last.out = <<wake>>
            /\ SCALE_REQUESTS[last.cpu] = Offered(last.before, wake)

C1_Witness ==
    /\ XdpMet(0)
    /\ last.ret = "XDP_DROP"
    /\ Len(SCALE_REQUESTS[last.cpu]) = Len(last.before) + 1

\* C2: a frame whose destination is a key of the table with flag 1 passes,
\* and exactly one record {ip = destination, action = 0} is handed to the
\* CPU's buffer, which holds it unless it is full.
C2_PassAndObserve ==
    XdpMet(1) =>
        LET live == [ipv4_address |-> ParseIpv4(last.frame.dst_addr), action |-> 0]
        IN  /\ last.ret = "XDP_PASS"
            /\ last.out = <<live>>
            /\ SCALE_REQUESTS[last.cpu] = Offered(last.before, live)

C2_Witness ==
    /\ XdpMet(1)
    /\ last.ret = "XDP_PASS"
    /\ Len(SCALE_REQUESTS[last.cpu]) = Len(last.before) + 1

\* C3: a frame whose destination is no key of the table passes and no record
\* is emitted, whatever the table holds.
C3_UnmanagedPasses ==
    ( /\ last.op = "xdp"
      /\ HasDestination(last.frame)
      /\ ParseIpv4(last.frame.dst_addr) \notin DOMAIN SERVICE_LIST )
    => /\ last.ret = "XDP_PASS"
       /\ last.out = <<>>
       /\ SCALE_REQUESTS[last.cpu] = last.before

C3_Witness ==
    /\ last.op = "xdp"
    /\ HasDestination(last.frame)
    /\ ParseIpv4(last.frame.dst_addr) \notin DOMAIN SERVICE_LIST
    /\ SERVICE_LIST # EmptyMap
    /\ \E a \in DOMAIN SERVICE_LIST : SERVICE_LIST[a] = 0
    /\ last.ret = "XDP_PASS"

\* Consumer c's scale_up call passes the rate limiter in this step.
Accepted(c) == consumer[c].pc = "su_limit" /\ consumer'[c].pc = "su_get"

\* Consumer c submits its replicas=1 patch in this step.
PatchSubmitted(c) == consumer[c].pc = "su_patch" /\ consumer'[c].pc = "idle"

\* C4 as stated: two replicas=1 patches for the same cluster_ip are never
\* submitted less than 5 s apart.
C4_PatchesFiveSecondsApart ==
    [][\A c \in Cpus :
         (PatchSubmitted(c) /\ consumer[c].ip \in DOMAIN patches)
         => now - patches[consumer[c].ip] >= RateLimitSecs]_vars

\* C4, amended: the scale_up calls that pass the rate limiter for one
\* cluster_ip carry timestamps (the `now` read on entry) at least 5 s apart,
\* whatever the interleaving of the consumers, and each such call submits one
\* patch; nothing else writes the limiter or submits a replicas=1 patch.
C4_AcceptedCallsFiveSecondsApart ==
    [][/\ \A c \in Cpus :
            Accepted(c) =>
               /\ consumer[c].ip \in DOMAIN LAST_CALLED
                    => consumer[c].now - LAST_CALLED[consumer[c].ip] >= RateLimitSecs
               /\ LAST_CALLED' = Put(LAST_CALLED, consumer[c].ip, consumer[c].now)
       /\ LAST_CALLED' # LAST_CALLED => \E c \in Cpus : Accepted(c)
       /\ patches' # patches => \E c \in Cpus : PatchSubmitted(c)]_vars

\* A call is accepted for an address that already got a patch.
C4_Witness ==
    \E c \in Cpus :
        /\ consumer[c].pc = "su_get"
        /\ consumer[c].ip \in DOMAIN patches
        /\ LAST_CALLED[consumer[c].ip] >= RateLimitSecs

\* The scale_down loop submits its replicas=0 patch in this step.
ScaleDownSubmitted == scaler.pc = "patch" /\ scaler'.pc # "patch"

\* C5 as stated: when the replicas=0 patch for a cluster_ip is submitted, the
\* record the registry holds for it at that moment is idle for longer than
\* scale_down_time and has backend_available true.
C5_IssuedOnCurrentRecord ==
    [][ScaleDownSubmitted =>
         LET record == WATCHED_SERVICES[scaler.key]
         IN  /\ now - record.last_packet_time > record.scale_down_time
             /\ record.backend_available]_vars

\* C6 as stated: no step ever lowers the last_packet_time of a record.
C6_LastPacketTimeMonotone ==
    [][\A ip \in DOMAIN WATCHED_SERVICES :
         WATCHED_SERVICES'[ip].last_packet_time >= WATCHED_SERVICES[ip].last_packet_time]_vars

\* C7: right after a Deployment or StatefulSet event of a workload that the
\* index knows was processed, the record of the Service the index holds for
\* the workload has backend_available = (the event's replicas >= 1).
C7_AvailableFollowsEventReplicas ==
    (last.op = "workload" /\ last.workload \in DOMAIN workload_service) =>
        LET service_ip == workload_service[last.workload].cluster_ip[1]
        IN  /\ service_ip \in DOMAIN WATCHED_SERVICES
            /\ WATCHED_SERVICES[service_ip].backend_available = (last.replicas >= 1)

\* An event with replicas 0 of an indexed workload was just processed while
\* the workload of the other service is up.
C7_Witness ==
    /\ last.op = "workload"
    /\ last.workload \in DOMAIN workload_service
    /\ last.replicas = 0
    /\ \E ip \in DOMAIN WATCHED_SERVICES : WATCHED_SERVICES[ip].backend_available

\* `table` has exactly the cluster_ips of `services` as keys, each with flag 1
\* when the record is available and 0 when it is not.
Matches(table, services) ==
    /\ DOMAIN table = {ParseIpv4(ip) : ip \in DOMAIN services}
    /\ \A ip \in DOMAIN services :
         table[ParseIpv4(ip)] = IF services[ip].backend_available THEN 1 ELSE 0

\* The sync loop finishes a pass in this step.
SyncPassEnds == syncer.pc = "apply" /\ syncer'.pc = "snapshot"

\* C8: when a sync pass ends and the registry is what the pass collected at
\* its start (and fits the table), the kernel table has exactly the registry's
\* cluster_ips as keys, each with the flag of its record.
C8_TableMatchesAfterQuietPass ==
    [][(/\ SyncPassEnds
        /\ Matches(syncer.pod_ips, WATCHED_SERVICES)
        /\ Cardinality(DOMAIN WATCHED_SERVICES) <= MaxEntries)
       => Matches(SERVICE_LIST', WATCHED_SERVICES')]_vars

\* A pass is about to end on an unchanged registry of two records, and has
\* both to add a key and to change the flag of a key the table holds.
C8_Witness ==
    /\ syncer.pc = "apply"
    /\ Matches(syncer.pod_ips, WATCHED_SERVICES)
    /\ Cardinality(DOMAIN WATCHED_SERVICES) = 2
    /\ \E a \in DOMAIN syncer.pod_ips : a \notin DOMAIN SERVICE_LIST
    /\ \E a \in DOMAIN syncer.pod_ips :
         a \in DOMAIN SERVICE_LIST /\ SERVICE_LIST[a] # syncer.pod_ips[a]

\* C9: every key of the kernel table, written as a dotted address, is the
\* cluster_ip of a record of the registry.
C9_TableKeysAreClusterIps ==
    \A a \in DOMAIN SERVICE_LIST : Ipv4ToString(a) \in DOMAIN WATCHED_SERVICES

\* The table holds a key while the registry holds a record the table lacks.
C9_Witness ==
    /\ DOMAIN SERVICE_LIST # {}
    /\ \E ip \in DOMAIN WATCHED_SERVICES : ParseIpv4(ip) \notin DOMAIN SERVICE_LIST

\* A wake event with action = 1 for `ip` is with consumer c, read at `t`, and
\* no scale_up for `ip` was accepted in the RateLimitSecs before `t`.
WakeDelivered(c, ip, t) ==
    /\ consumer[c].pc = "su_limit"
    /\ consumer[c].ip = ip
    /\ consumer[c].now = t
    /\ RateLimit(ip, t) = "pass"

\* The last replicas=1 patch for `ip` went out at `t` or later.
PatchIssuedSince(ip, t) == ip \in DOMAIN patches /\ patches[ip] >= t

\* The first half of C10: a delivered wake event that the limiter does not
\* hold back leads to a replicas=1 patch for its address.
WakeLeadsToPatch ==
    \A c \in Cpus, ip \in ClusterIps, t \in 0..MaxTime :
        WakeDelivered(c, ip, t) ~> PatchIssuedSince(ip, t)

\* C10 as stated: the wake event leads to a patch, and a frame that arrived
\* less than 5 s after a scale-up was accepted for its address yields no
\* further patch (its scale_up call is never accepted).
C10_SecondFrameYieldsNoPatch ==
    /\ WakeLeadsToPatch
    /\ [][\A c \in Cpus : Accepted(c) => ~consumer[c].soon]_vars

\* C10, amended: the wake event leads to a patch, and a wake event that its
\* consumer reads less than 5 s after the timestamp of the last accepted
\* scale_up for its address yields no patch: the call returns without one.
C10_WakeLeadsToOnePatch ==
    /\ WakeLeadsToPatch
    /\ [][\A c \in Cpus :
            (/\ consumer[c].pc = "su_limit"
             /\ consumer[c].ip \in DOMAIN LAST_CALLED
             /\ consumer[c].now - LAST_CALLED[consumer[c].ip] < RateLimitSecs
             /\ consumer'[c] # consumer[c])
            => consumer'[c] = ConsumerIdle /\ patches' = patches]_vars

\* A frame that arrived within 5 s of an accepted scale-up is with its
\* consumer after those 5 s are over, and the first call's patch has gone out.
C10_Witness ==
    \E c \in Cpus :
        /\ consumer[c].pc = "su_limit"
        /\ consumer[c].soon
        /\ consumer[c].ip \in DOMAIN patches
        /\ RateLimit(consumer[c].ip, consumer[c].now) = "pass"

\* The record of `ip` is available and idle for longer than its
\* scale_down_time, its last packet seen at `t`, and the scale_down loop runs.
IdleSince(ip, t) ==
    /\ ip \in DOMAIN WATCHED_SERVICES
    /\ WATCHED_SERVICES[ip].last_packet_time = t
    /\ WATCHED_SERVICES[ip].backend_available
    /\ now - t > WATCHED_SERVICES[ip].scale_down_time
    /\ scaler.pc # "dead"

\* The record of `ip` got a packet (or was applied again) after `t`.
Touched(ip, t) ==
    ip \in DOMAIN WATCHED_SERVICES /\ WATCHED_SERVICES[ip].last_packet_time # t

\* The registry holds a record of `ip` with backend_available = b.
Available(ip, b) ==
    ip \in DOMAIN WATCHED_SERVICES /\ WATCHED_SERVICES[ip].backend_available = b

\* The replicas=0 patch for `ip` was taken by the orchestrator and the loop is
\* about to update the record.
ScaledDown(ip) == scaler.pc = "write" /\ scaler.key = ip

\* The loop ended on the Err of its patch.
ScaleDownFailed == scaler.pc = "dead"

KernelFlag(ip) ==
    IF ParseIpv4(ip) \in DOMAIN SERVICE_LIST THEN << SERVICE_LIST[ParseIpv4(ip)] >> ELSE <<>>

\* C11: a record that is available and idle beyond its scale_down_time, and
\* gets no further packet, leads to the replicas=0 patch; a patch the
\* orchestrator took leads to backend_available = false in the record; and an
\* unavailable record leads to kernel flag 0 (unless the record is made
\* available again first).
C11_IdleLeadsToScaleDown ==
    /\ \A ip \in ClusterIps, t \in 0..MaxTime :
         IdleSince(ip, t) ~> (ScaledDown(ip) \/ ScaleDownFailed \/ Touched(ip, t))
    /\ \A ip \in ClusterIps :
         ScaledDown(ip) ~> Available(ip, FALSE)
    /\ \A ip \in ClusterIps :
         Available(ip, FALSE) ~> (KernelFlag(ip) = <<0>> \/ Available(ip, TRUE))

\* The whole chain has run: the record is unavailable after a patch that set
\* the workload to 0 replicas, and the kernel flag is 0.
C11_Witness ==
    /\ ~WATCHED_SERVICES[IpA].backend_available
    /\ replicas[WlDeploy] = 0
    /\ KernelFlag(IpA) = <<0>>
    /\ scaler.pc = "loop"

\* The workload event just processed belongs to the workload indexed for the
\* Service of `ip`.
EventFor(ip) ==
    /\ last.op = "workload"
    /\ last.workload \in DOMAIN workload_service
    /\ workload_service[last.workload].cluster_ip = <<ip>>

\* C12: for a record that starts scaled down with kernel flag 0: a processed
\* workload event with replicas >= 1 of the owning workload leaves the record
\* available; an available record leads to kernel flag 1 (unless the record
\* is made unavailable again first); and a frame to the cluster_ip that meets
\* flag 1 passes.
C12_RestoredServicePasses ==
    /\ [](\A ip \in ClusterIps :
            (EventFor(ip) /\ last.replicas >= 1) => Available(ip, TRUE))
    /\ \A ip \in ClusterIps :
         Available(ip, TRUE) ~> (KernelFlag(ip) = <<1>> \/ Available(ip, FALSE))
    /\ [](\A ip \in ClusterIps :
            (XdpMet(1) /\ last.frame.dst_addr = ip) => last.ret = "XDP_PASS")

\* The record that started scaled down is available, the table holds flag 1
\* for it, and a frame to it has just passed.
C12_Witness ==
    /\ Available(IpA, TRUE)
    /\ XdpMet(1)
    /\ last.frame.dst_addr = IpA
    /\ last.ret = "XDP_PASS"

\* C13 as stated: when an accepted scale_up call has submitted its replicas=1
\* patch, the registry's record of that cluster_ip has backend_available =
\* true.
C13_ScaleUpMarksAvailable ==
    [][\A c \in Cpus :
         PatchSubmitted(c) =>
            /\ consumer[c].ip \in DOMAIN WATCHED_SERVICES'
            /\ WATCHED_SERVICES'[consumer[c].ip].backend_available]_vars

\* A frame too short for an Ethernet header, or an IPv4 frame too short for
\* its IPv4 header.
Truncated(frame) ==
    \/ frame.len < EthHdrLEN
    \/ frame.ether_type = "Ipv4" /\ frame.len < EthHdrLEN + Ipv4HdrLEN

\* C14 as stated: the classifier returns PASS for every truncated frame.
C14_TruncatedFramesPass ==
    (last.op = "xdp" /\ Truncated(last.frame)) => last.ret = "XDP_PASS"

\* The step skips the event it took: registry and index are as before and
\* the watcher is back at the stream.
Skipped ==
    /\ UNCHANGED << WATCHED_SERVICES, workload_service >>
    /\ watcher'.pc = "idle"

\* The Service carries both managed annotations.
Managed(s) == {AnnReference, AnnScaleDownTime} \subseteq DOMAIN s.annotations

\* C15 as stated: the applied event of a Service that lacks one of the two
\* annotations (or both) is skipped.
C15_UnmanagedServiceSkipped ==
    [][\A s \in ServiceEvents : (watch_service(s) /\ ~Managed(s)) => Skipped]_vars

\* The reference of Service s has the form kind/name with a kind this
\* controller knows.
KnownReference(s) ==
    /\ AnnReference \in DOMAIN s.annotations
    /\ Len(s.annotations[AnnReference]) = 2
    /\ s.annotations[AnnReference][1] \in {"deployment", "statefulset"}

\* The workload the reference of Service s names.
Referenced(s) == WorkloadOf(s.annotations[AnnReference][1], s.annotations[AnnReference][2])

\* The Service has a scale-down-time that is an integer, and a cluster_ip.
WellFormed(s) ==
    /\ Managed(s)
    /\ ParseI64(s.annotations[AnnScaleDownTime]) # <<>>
    /\ s.cluster_ip # <<>>

\* C16 as stated: the applied event of a managed Service whose reference
\* names a workload the cluster does not hold is skipped.
C16_MissingWorkloadSkipped ==
    [][\A s \in ServiceEvents :
         (/\ watch_service(s)
          /\ WellFormed(s)
          /\ KnownReference(s)
          /\ Referenced(s) \notin DOMAIN replicas)
         => Skipped]_vars

\* C17 as stated: after a replicas=0 patch, failed or not, the scale_down
\* loop is still running with the keys that are left of its pass.
C17_LoopSurvivesPatchError ==
    [][ScaleDownSubmitted =>
         /\ scaler'.pc \in {"write", "loop"}
         /\ scaler'.keys = scaler.keys]_vars

\* C18: a record enters the registry only in the step that ends the handling
\* of a Service applied event, for a Service that carries both annotations,
\* whose cluster_ip is the record's key and whose reference names a workload
\* the cluster holds.
C18_RecordsComeFromManagedServices ==
    [][\A ip \in DOMAIN WATCHED_SERVICES' :
         ip \notin DOMAIN WATCHED_SERVICES =>
            /\ watcher.pc = "insert"
            /\ watcher'.pc = "idle"
            /\ LET s == watcher.service[1]
               IN  /\ Managed(s)
                   /\ KnownReference(s)
                   /\ s.cluster_ip = <<ip>>
                   /\ Referenced(s) \in DOMAIN replicas
                   /\ WATCHED_SERVICES'[ip].kind = Referenced(s).kind
                   /\ WATCHED_SERVICES'[ip].name = Referenced(s).name]_vars

\* Both managed Services have their records and the watcher is back at the
\* stream.
C18_Witness ==
    /\ DOMAIN WATCHED_SERVICES = {IpA, IpB}
    /\ watcher.pc = "idle"

\* The watcher ends the handling of a Service applied event in this step.
ServiceApplied == watcher.pc = "insert" /\ watcher'.pc = "idle"

\* C19: the applied event of a managed Service whose workload resolves is
\* carried, with the replicas the fetch returned, to the step that ends its
\* handling; that step leaves under the Service's cluster_ip a record with
\* last_packet_time = now, backend_available = (replicas >= 1), the
\* scale-down-time and the workload of the annotations, puts (kind, name,
\* namespace) -> service into the index, and changes no other record and no
\* other index entry.
C19_ServiceAppliedSeedsRecord ==
    [][/\ \A s \in ServiceEvents :
            (/\ watch_service(s)
             /\ WellFormed(s)
             /\ KnownReference(s)
             /\ Referenced(s) \in DOMAIN replicas)
            => /\ watcher'.pc = "insert"
               /\ watcher'.service = <<s>>
               /\ watcher'.replicas = replicas[Referenced(s)]
       /\ ServiceApplied =>
            LET s == watcher.service[1]
                ip == s.cluster_ip[1]
            IN  /\ DOMAIN WATCHED_SERVICES' = DOMAIN WATCHED_SERVICES \cup {ip}
                /\ WATCHED_SERVICES'[ip] =
                     [scale_down_time |-> ParseI64(s.annotations[AnnScaleDownTime])[1],
                      last_packet_time |-> now,
                      kind |-> Referenced(s).kind,
                      name |-> Referenced(s).name,
                      namespace |-> Referenced(s).namespace,
                      backend_available |-> (watcher.replicas >= 1)]
                /\ \A other \in DOMAIN WATCHED_SERVICES \ {ip} :
                     WATCHED_SERVICES'[other] = WATCHED_SERVICES[other]
                /\ DOMAIN workload_service' = DOMAIN workload_service \cup {Referenced(s)}
                /\ workload_service'[Referenced(s)] = s
                /\ \A other \in DOMAIN workload_service \ {Referenced(s)} :
                     workload_service'[other] = workload_service[other]]_vars

\* A record was replaced after the clock went on: it is younger than the
\* record of the other Service, and unavailable while that one is available.
C19_Witness ==
    /\ DOMAIN WATCHED_SERVICES = {IpA, IpB}
    /\ watcher.pc = "idle"
    /\ WATCHED_SERVICES[IpA].last_packet_time > WATCHED_SERVICES[IpB].last_packet_time
    /\ WATCHED_SERVICES[IpA].last_packet_time = now
    /\ ~WATCHED_SERVICES[IpA].backend_available
    /\ WATCHED_SERVICES[IpB].backend_available

\* The reference of Service s is not of the form kind/name.
MalformedReference(s) ==
    AnnReference \in DOMAIN s.annotations /\ Len(s.annotations[AnnReference]) # 2

\* The reference of Service s has the form kind/name with a kind this
\* controller does not know (and the Service is well-formed otherwise).
UnknownKind(s) ==
    /\ WellFormed(s)
    /\ Len(s.annotations[AnnReference]) = 2
    /\ s.annotations[AnnReference][1] \notin {"deployment", "statefulset"}

InvalidScaleDownTime(s) ==
    /\ AnnScaleDownTime \in DOMAIN s.annotations
    /\ ParseI64(s.annotations[AnnScaleDownTime]) = <<>>

\* C21 as stated: the applied event of a Service whose scale-down-time is
\* present but no integer is skipped, and the watcher does not terminate.
C21_InvalidScaleDownTimeSkipped ==
    [][\A s \in ServiceEvents :
         (watch_service(s) /\ InvalidScaleDownTime(s)) => Skipped]_vars

\* Consumer c takes the next event of its buffer in this step.
EventRead(c) ==
    /\ consumer[c].pc = "idle"
    /\ SCALE_REQUESTS[c] # <<>>
    /\ SCALE_REQUESTS'[c] = Tail(SCALE_REQUESTS[c])

\* The address of the event consumer c is about to read.
EventIp(c) == Ipv4ToString(Head(SCALE_REQUESTS[c]).ipv4_address)

ScaleUpStep(c) == consumer[c].pc \in {"su_limit", "su_get", "su_patch"} /\ consumer'[c] # consumer[c]

\* C23: reading a wake event whose address has a record sets that record's
\* last_packet_time to now and nothing else of it, whatever the action; and
\* no step of the scale_up that follows (accepted, rejected as rate-limited,
\* patch taken or failed) touches the registry.
C23_EveryEventStampsRecord ==
    [][\A c \in Cpus :
         /\ (EventRead(c) /\ EventIp(c) \in DOMAIN WATCHED_SERVICES /\ ~Poisoned) =>
               WATCHED_SERVICES' =
                  [WATCHED_SERVICES EXCEPT ![EventIp(c)].last_packet_time = now]
         /\ ScaleUpStep(c) => WATCHED_SERVICES' = WATCHED_SERVICES]_vars

\* The record was stamped by an event with action = 1 whose scale_up is about
\* to be rejected as rate-limited.
C23_Witness ==
    \E c \in Cpus :
        /\ consumer[c].pc = "su_limit"
        /\ consumer[c].now > 0
        /\ RateLimit(consumer[c].ip, consumer[c].now) = "limited"
        /\ consumer[c].ip \in DOMAIN WATCHED_SERVICES
        /\ WATCHED_SERVICES[consumer[c].ip].last_packet_time = consumer[c].now

\* C24: a replicas=1 patch is submitted only by a wake consumer at the end of
\* a scale_up call, a scale_up call is entered only by reading a wake event
\* with action = 1, for the address of that event, and it runs limiter, lookup,
\* patch in this order; nothing else raises the replicas of a workload.
C24_ScaleUpIsPacketDriven ==
    [][/\ patches' # patches => \E c \in Cpus : PatchSubmitted(c)
       /\ (\E w \in Workloads : replicas'[w] > replicas[w]) => \E c \in Cpus : PatchSubmitted(c)
       /\ \A c \in Cpus :
            /\ (consumer[c].pc = "idle" /\ consumer'[c].pc # "idle") =>
                  /\ EventRead(c)
                  /\ Head(SCALE_REQUESTS[c]).action = 1
                  /\ consumer'[c].pc = "su_limit"
                  /\ consumer'[c].ip = EventIp(c)
            /\ (consumer'[c].pc = "su_get" /\ consumer[c].pc # "su_get") =>
                  consumer[c].pc = "su_limit"
            /\ (consumer'[c].pc = "su_patch" /\ consumer[c].pc # "su_patch") =>
                  consumer[c].pc = "su_get"]_vars

\* The service was scaled down by the loop and is up again after a wake
\* event: its patch is on record, the record is available, the flag is 1.
C24_Witness ==
    /\ IpA \in DOMAIN patches
    /\ Available(IpA, TRUE)
    /\ KernelFlag(IpA) = <<1>>
    /\ replicas[WlDeploy] = 1

\* Consumer c is past the rate limiter of a scale_up call (at the lookup, at
\* the patch, or dead of the failed lookup).
PastLimiter(c) == consumer[c].pc \in {"su_get", "su_patch", "panicked"}

\* C25: a call that passes the limiter records its timestamp for its
\* cluster_ip in that very step, before the lookup and the patch; the lookup
\* and the patch, failing or not, leave the limiter as it is; and a call for a
\* cluster_ip whose recorded time is less than 5 s before it is rejected.
C25_RecordedBeforePatch ==
    [][\A c \in Cpus :
         /\ Accepted(c) =>
               /\ LAST_CALLED' = Put(LAST_CALLED, consumer[c].ip, consumer[c].now)
               /\ patches' = patches
         /\ (PastLimiter(c) /\ consumer'[c] # consumer[c]) =>
               /\ consumer[c].ip \in DOMAIN LAST_CALLED
               /\ LAST_CALLED' = LAST_CALLED
         /\ (/\ consumer[c].pc = "su_limit"
             /\ consumer'[c] # consumer[c]
             /\ consumer[c].ip \in DOMAIN LAST_CALLED
             /\ consumer[c].now - LAST_CALLED[consumer[c].ip] < RateLimitSecs) =>
               /\ consumer'[c] = ConsumerIdle
               /\ patches' = patches]_vars

\* The patch of one call has failed (submitted, the workload still at 0) and
\* a second call for the same cluster_ip stands at the limiter inside the
\* window.
C25_Witness ==
    \E c \in Cpus :
      /\ consumer[c].pc = "su_limit"
      /\ consumer[c].ip \in DOMAIN patches
      /\ replicas[WorkloadOf("deployment", "foo")] = 0
      /\ RateLimit(consumer[c].ip, consumer[c].now) = "limited"

\* Consumer c stands at the limiter with a call that falls in the window.
Limited(c) ==
    consumer[c].pc = "su_limit" /\ RateLimit(consumer[c].ip, consumer[c].now) = "limited"

\* C26: the step of a rate-limited call ends the call at once: the consumer
\* is back at the ring, no patch is submitted, and the limiter's entry, the
\* registry and the workloads are as before.
C26_RejectedCallChangesNothing ==
    [][\A c \in Cpus :
         (Limited(c) /\ consumer'[c] # consumer[c]) =>
            /\ consumer'[c] = ConsumerIdle
            /\ UNCHANGED << LAST_CALLED, WATCHED_SERVICES, patches, replicas, wl_events >>]_vars

\* A call at the last second of the window of an earlier one.
C26_Witness ==
    \E c \in Cpus :
      /\ Limited(c)
      /\ consumer[c].now - LAST_CALLED[consumer[c].ip] = RateLimitSecs - 1

\* The observed classifier run handed a record to a buffer that was full:
\* the record is lost.
EventLost ==
    /\ last.op = "xdp"
    /\ last.out # <<>>
    /\ Len(last.before) >= RingCap
    /\ SCALE_REQUESTS[last.cpu] = last.before

\* C27: when the wake record of a frame is lost to a full buffer, the verdict
\* is the one the table entry alone calls for: DROP for flag 0, PASS for
\* flag 1, as when the buffer takes the record.
C27_VerdictIgnoresRing ==
    EventLost =>
        /\ XdpMet(0) \/ XdpMet(1)
        /\ XdpMet(0) => last.ret = "XDP_DROP"
        /\ XdpMet(1) => last.ret = "XDP_PASS"

\* A frame for a scaled-down service met a full buffer and was dropped.
C27_Witness ==
    /\ EventLost
    /\ XdpMet(0)
    /\ last.ret = "XDP_DROP"

\* C28: the event of a workload the index has no entry for is taken from the
\* stream and changes neither the registry nor the index nor the watcher; the
\* applied event of a Service whose workload is not indexed yet fetches the
\* workload's current replicas, and the step that indexes the workload leaves
\* the Service's record with backend_available = (those replicas >= 1).
C28_UnindexedWorkloadEventIgnored ==
    [][/\ \A w \in Workloads :
            (watch_workload(w) /\ w \notin DOMAIN workload_service) =>
               /\ wl_events' = [wl_events EXCEPT ![w] = Tail(@)]
               /\ UNCHANGED << WATCHED_SERVICES, workload_service, watcher >>
       /\ \A s \in ServiceEvents :
            (/\ watch_service(s)
             /\ watcher'.pc = "insert"
             /\ Referenced(s) \notin DOMAIN workload_service)
            => watcher'.replicas = replicas[Referenced(s)]
       /\ \A w \in Workloads :
            (w \notin DOMAIN workload_service /\ w \in DOMAIN workload_service') =>
               LET ip == workload_service'[w].cluster_ip[1]
               IN  /\ ServiceApplied
                   /\ ip \in DOMAIN WATCHED_SERVICES'
                   /\ WATCHED_SERVICES'[ip].backend_available = (watcher.replicas >= 1)
                   /\ WATCHED_SERVICES'[ip].kind = w.kind
                   /\ WATCHED_SERVICES'[ip].name = w.name]_vars

\* An event of a workload without an index entry was just taken, with
\* replicas that differ from what a record of the registry says.
C28_Witness ==
    /\ last.op = "workload"
    /\ last.workload \notin DOMAIN workload_service
    /\ \E ip \in DOMAIN WATCHED_SERVICES :
         WATCHED_SERVICES[ip].backend_available # (last.replicas >= 1)

C30_SyncIdempotent ==
    [][SyncPassEnds =>
         /\ SERVICE_LIST = syncer.pod_ips =>
               /\ SyncInsertKeys(SERVICE_LIST, syncer.pod_ips) = {}
               /\ SyncRemoveKeys(SERVICE_LIST, syncer.pod_ips) = {}
               /\ SERVICE_LIST' = SERVICE_LIST
         /\ sync_data(SERVICE_LIST', syncer.pod_ips) = SERVICE_LIST'
         /\ SyncInsertKeys(SERVICE_LIST', syncer.pod_ips) = {}
         /\ SyncRemoveKeys(SERVICE_LIST', syncer.pod_ips) = {}]_vars

\* A pass is about to run its loops on a table of two keys with different
\* flags that equals the projection of the registry it collected.
C30_Witness ==
    /\ syncer.pc = "apply"
    /\ SERVICE_LIST = syncer.pod_ips
    /\ Matches(SERVICE_LIST, WATCHED_SERVICES)
    /\ \E a, b \in DOMAIN SERVICE_LIST : SERVICE_LIST[a] = 0 /\ SERVICE_LIST[b] = 1

\* The scale_down loop writes its record back in this step.
ScaleDownWritten == scaler.pc = "write" /\ scaler'.pc = "loop"

\* C31 as stated: the write of the scale_down loop after its patch changes
\* only backend_available, to false; the other fields of the record keep the
\* values the registry holds when the write happens.
C31_WriteBackChangesOnlyAvailability ==
    [][ScaleDownWritten =>
         WATCHED_SERVICES' =
            [WATCHED_SERVICES EXCEPT ![scaler.key].backend_available = FALSE]]_vars

\* The record the registry holds under the cluster_ip of the Service that
\* the index gives for workload w is a record of w.
BackedBy(w) ==
    LET ip == workload_service[w].cluster_ip[1]
    IN  /\ ip \in DOMAIN WATCHED_SERVICES
        /\ WATCHED_SERVICES[ip].kind = w.kind
        /\ WATCHED_SERVICES[ip].name = w.name
        /\ WATCHED_SERVICES[ip].namespace = w.namespace

\* C32 as stated: every entry of the index leads to a record of the same
\* (kind, name, namespace), and a workload event changes backend_available
\* only of a record of that workload.
C32_IndexConsistentWithRegistry ==
    /\ [](\A w \in DOMAIN workload_service : BackedBy(w))
    /\ [][\A w \in Workloads, ip \in DOMAIN WATCHED_SERVICES :
            (/\ watch_workload(w)
             /\ WATCHED_SERVICES'[ip].backend_available # WATCHED_SERVICES[ip].backend_available)
            => /\ WATCHED_SERVICES[ip].kind = w.kind
               /\ WATCHED_SERVICES[ip].name = w.name]_vars

\* The orchestrator holds at least one replica for the workload of the
\* record at `ip`, and nothing is pending: no workload event in the stream,
\* no wake event in a buffer or with a consumer, the scale_down loop neither
\* at its patch nor at the write that follows it, the watcher at the stream.
Settled(ip) ==
    /\ ip \in DOMAIN WATCHED_SERVICES
    /\ replicas[WorkloadOf(WATCHED_SERVICES[ip].kind, WATCHED_SERVICES[ip].name)] >= 1
    /\ \A w \in Workloads : wl_events[w] = <<>>
    /\ \A c \in Cpus : SCALE_REQUESTS[c] = <<>> /\ consumer[c].pc = "idle"
    /\ scaler.pc = "loop"
    /\ watcher.pc = "idle"

\* C33 as stated: a record whose workload has replicas >= 1 with nothing
\* pending is available, and from there the kernel flag becomes 1 unless
\* something new comes up first.
C33_LiveServiceNotBlackHoled ==
    /\ [](\A ip \in ClusterIps : Settled(ip) => Available(ip, TRUE))
    /\ \A ip \in ClusterIps :
         Settled(ip) ~> (KernelFlag(ip) = <<1>> \/ ~Settled(ip))

\* C34: every key an unwrapped lookup is about to use is a key of the
\* registry: the keys the scale_down loop still has to visit and the key it
\* holds around its patch, the address of every wake event in a buffer and of
\* every scale_up call under way, and the cluster_ip of every Service of the
\* index; and no task has panicked.
C34_UnwrappedLookupsSucceed ==
    /\ scaler.keys \subseteq DOMAIN WATCHED_SERVICES
    /\ scaler.pc \in {"patch", "write"} => scaler.key \in DOMAIN WATCHED_SERVICES
    /\ \A c \in Cpus :
         /\ \A i \in 1..Len(SCALE_REQUESTS[c]) :
              Ipv4ToString(SCALE_REQUESTS[c][i].ipv4_address) \in DOMAIN WATCHED_SERVICES
         /\ consumer[c].pc \in {"su_limit", "su_get", "su_patch"} =>
              consumer[c].ip \in DOMAIN WATCHED_SERVICES
         /\ consumer[c].pc # "panicked"
    /\ \A w \in DOMAIN workload_service :
         workload_service[w].cluster_ip[1] \in DOMAIN WATCHED_SERVICES
    /\ watcher.pc # "panicked"

\* The scale_down loop is about to look its key up for the write-back while
\* a scale_up call is about to look up the same record.
C34_Witness ==
    /\ scaler.pc = "write"
    /\ \E c \in Cpus : consumer[c].pc = "su_get" /\ consumer[c].ip = scaler.key
    /\ DOMAIN workload_service # {}

====
